---- MODULE Spec2Model ----
(***************************************************************************)
(* State-machine model of the QR-code SaaS backend (FastAPI + SQLAlchemy). *)
(*                                                                         *)
(* The committed database is the shared state: the tables users, qr_codes  *)
(* and qr_scans, plus the artifact files on disk and the wall clock.       *)
(* Every HTTP request is served by a worker with its own SQLAlchemy        *)
(* session (database.py get_db); a worker's position inside a handler is   *)
(* pc[p] and the Python locals/ORM snapshot it holds are loc[p].           *)
(* The session is created with autoflush=False, so pending ORM changes     *)
(* reach the database only in db.commit(): the flush (UPDATE/INSERT/       *)
(* DELETE statements) and the COMMIT form one atomic step, while every     *)
(* earlier SELECT of the handler is a step of its own.  Workers of         *)
(* different server processes interleave between those steps.              *)
(*                                                                         *)
(* Primary keys are allocated as SQLite does for INTEGER PRIMARY KEY       *)
(* (config.py DATABASE_URL default): largest existing id plus one.         *)
(* SQLite does not enforce foreign keys unless asked to, and database.py   *)
(* never asks.                                                             *)
(***************************************************************************)
EXTENDS Integers, FiniteSets, Sequences, TLC

VARIABLES users, qrs, scans, files, now, pc, loc

vars == <<users, qrs, scans, files, now, pc, loc>>
db   == <<users, qrs, scans, files>>

(***************************************************************************)
(* Bounds of the model.                                                    *)
(***************************************************************************)
NProcs    == 2      \* concurrent workers
MaxUsers  == 2      \* rows of users
MaxScans  == 2      \* largest id of qr_scans
MaxTime   == 2      \* clock values 0..MaxTime (SpecScan)
MaxCodes  == 2      \* short codes the generator can return
MaxUrls   == 2      \* destination URLs
MaxQRs    == 2      \* largest id of qr_codes

(***************************************************************************)
(* NULL of a nullable column.                                              *)
(***************************************************************************)
NoId   == 0
NoTime == -1

Procs  == 1..NProcs
Codes  == 1..MaxCodes
Urls   == 1..MaxUrls
Emails == 1..MaxUsers

SubscriptionPlan == {"free", "pro", "business"}
UserRole         == {"user", "admin"}

Max(S) == CHOOSE x \in S : \A y \in S : y <= x
Min(S) == CHOOSE x \in S : \A y \in S : x <= y

RECURSIVE SumSeq(_)
SumSeq(sq) == IF Len(sq) = 0 THEN 0 ELSE sq[1] + SumSeq(Tail(sq))

\* INTEGER PRIMARY KEY of SQLite: the largest rowid in the table plus one.
NextId(tbl) == IF DOMAIN tbl = {} THEN 1 ELSE Max(DOMAIN tbl) + 1

\* f with key k removed / with k |-> v added.
Without(f, K) == [k \in DOMAIN f \ K |-> f[k]]
With(f, k, v) == [x \in DOMAIN f \cup {k} |-> IF x = k THEN v ELSE f[x]]

Idle == [op |-> "none"]

\* The handler returns (or raises): the worker holds the response until the
\* server has written it out.
Respond(p, r) ==
    /\ pc'  = [pc EXCEPT ![p] = "done"]
    /\ loc' = [loc EXCEPT ![p] = r]

\* The response is sent; get_db's finally closes the session.
Return(p) ==
    /\ pc[p] = "done"
    /\ pc'  = [pc EXCEPT ![p] = "idle"]
    /\ loc' = [loc EXCEPT ![p] = Idle]
    /\ UNCHANGED <<users, qrs, scans, files, now>>

(***************************************************************************)
(* models/user.py                                                          *)
(***************************************************************************)
is_premium(u) == u.subscription_plan \in {"pro", "business"}

\* 3 for the free plan, None (modelled as NoId = 0, never compared) otherwise.
FreeQrLimit == 3
qr_code_limit(u) == IF u.subscription_plan = "free" THEN FreeQrLimit ELSE NoId

(***************************************************************************)
(* models/qrcode.py                                                        *)
(***************************************************************************)
is_expired(q, t) == IF q.expires_at = NoTime THEN FALSE ELSE t > q.expires_at

\* A can_scan that forgets the expiry.
can_scan_ignores_expiry(q, t) == q.is_active

can_scan(q, t) == q.is_active /\ ~is_expired(q, t)

\* Rows of qr_scans that reference QR code i.
ScansOf(i) == {s \in DOMAIN scans : scans[s].qr_code_id = i}

(***************************************************************************)
(* routes/public.py  scan_qr_code:  GET /s/{short_code}                    *)
(***************************************************************************)
\* The classification with the tablet flag tested before the mobile flag.
device_type_tablet_first(ua) ==
    IF ua.is_tablet THEN "tablet"
    ELSE IF ua.is_mobile THEN "mobile"
    ELSE IF ua.is_pc THEN "desktop"
    ELSE "other"

\* Device classification from the parsed user agent's flags.
device_type(ua) ==
    IF ua.is_mobile THEN "mobile"
    ELSE IF ua.is_tablet THEN "tablet"
    ELSE IF ua.is_pc THEN "desktop"
    ELSE "other"

UserAgents == [is_mobile : BOOLEAN, is_tablet : BOOLEAN, is_pc : BOOLEAN]

\* A lookup whose filter is lost: any row matches.
QrByShortCode_unfiltered(c) == DOMAIN qrs

\* db.query(QRCode).filter(QRCode.short_code == short_code).first()
QrByShortCode(c) == {i \in DOMAIN qrs : qrs[i].short_code = c}

\* Lines 27-67: the SELECT, the two early returns, and the pending ORM
\* changes (the new QRScan object and total_scans = <value read> + 1).
ScanRead(p, c, ua) ==
    /\ pc[p] = "idle"
    /\ LET hit == QrByShortCode(c) IN
       IF hit = {}
       THEN Respond(p, [op |-> "scan", code |-> c, status |-> 404])
       ELSE LET i == Min(hit) IN
            IF ~can_scan(qrs[i], now)
            THEN Respond(p, [op |-> "scan", code |-> c, status |-> 403])
            ELSE /\ pc'  = [pc EXCEPT ![p] = "scan_commit"]
                 /\ loc' = [loc EXCEPT ![p] =
                        [op |-> "scan", code |-> c, id |-> i,
                         total_scans |-> qrs[i].total_scans + 1,
                         last_scanned_at |-> now,
                         device_type |-> device_type(ua)]]
    /\ UNCHANGED <<users, qrs, scans, files, now>>

\* The row of qr_codes as the flush of scan_qr_code rewrites it:
\* UPDATE qr_codes SET total_scans=:v, last_scanned_at=:t WHERE id=:id
\* with :v the value computed in Python from the row that was read (line 72)
\* and :t the datetime.utcnow() taken in the handler (line 73).
ScanCounterUpdate(q, l) ==
    [q EXCEPT !.total_scans = l.total_scans, !.last_scanned_at = l.last_scanned_at]

\* The row INSERTed into qr_scans; scanned_at is the column default
\* (datetime.utcnow), evaluated when the INSERT is flushed.
ScanRow(l, t) ==
    [qr_code_id |-> l.id, scanned_at |-> t, device_type |-> l.device_type,
     country |-> NoId]

\* Line 75, db.commit(): flush (UPDATE qr_codes, INSERT qr_scans) and COMMIT
\* as one transaction.  An UPDATE that matches no row raises StaleDataError:
\* the transaction is rolled back and the request ends in a 500.
ScanCommit(p) ==
    /\ pc[p] = "scan_commit"
    /\ LET l == loc[p] IN
       IF l.id \notin DOMAIN qrs
       THEN /\ Respond(p, [op |-> "scan", code |-> l.code, status |-> 500,
                           committed |-> FALSE])
            /\ UNCHANGED <<qrs, scans>>
       ELSE /\ qrs'   = [qrs EXCEPT ![l.id] = ScanCounterUpdate(qrs[l.id], l)]
            /\ scans' = With(scans, NextId(scans), ScanRow(l, now))
            /\ pc'    = [pc EXCEPT ![p] = "scan_redirect"]
            /\ loc'   = loc
    /\ UNCHANGED <<users, files, now>>

\* A failing commit that leaves the INSERT of the scan row behind.
ScanCommitFail_partial(p) ==
    /\ pc[p] = "scan_commit"
    /\ scans' = With(scans, NextId(scans), ScanRow(loc[p], now))
    /\ Respond(p, [op |-> "scan", code |-> loc[p].code, status |-> 500,
                   committed |-> FALSE])
    /\ UNCHANGED <<users, qrs, files, now>>

\* Line 75 raising for a reason of the database itself (SQLite "database is
\* locked", lost connection): nothing of the transaction is persisted, the
\* exception propagates to the framework (500) and get_db closes the session.
ScanCommitFail(p) ==
    /\ pc[p] = "scan_commit"
    /\ Respond(p, [op |-> "scan", code |-> loc[p].code, status |-> 500,
                   committed |-> FALSE])
    /\ UNCHANGED <<users, qrs, scans, files, now>>

\* Line 78: the commit expired the ORM object (expire_on_commit), so reading
\* qr_code.destination_url SELECTs the row again by primary key; a row that
\* is gone by then raises ObjectDeletedError after the scan was committed.
ScanRedirect(p) ==
    /\ pc[p] = "scan_redirect"
    /\ LET l == loc[p] IN
       IF l.id \notin DOMAIN qrs
       THEN Respond(p, [op |-> "scan", code |-> l.code, status |-> 500,
                        committed |-> TRUE])
       ELSE Respond(p, [op |-> "scan", code |-> l.code, status |-> 302,
                        id |-> l.id, url |-> qrs[l.id].destination_url])
    /\ UNCHANGED <<users, qrs, scans, files, now>>

(***************************************************************************)
(* utils/auth.py get_current_user: the bearer token names an existing user,*)
(* whose row is loaded once, when the request starts.                      *)
(***************************************************************************)
get_current_user(u) == users[u]

\* The lookup by id alone, without the owner filter.
OwnedQr_any_owner(i, u) == i \in DOMAIN qrs

\* db.query(QRCode).filter(QRCode.id == qr_id, QRCode.user_id == user.id).first()
OwnedQr(i, u) == i \in DOMAIN qrs /\ qrs[i].user_id = u

QrsOfUser(u) == {i \in DOMAIN qrs : qrs[i].user_id = u}

(***************************************************************************)
(* routes/qr.py  create_qr_code:  POST /qr/create                          *)
(***************************************************************************)
\* The quota test off by one: the limit itself still passes.
QuotaExceeded_off_by_one(cu, qr_count) ==
    ~is_premium(cu) /\ qr_count > qr_code_limit(cu)

\* Lines 70-72: the quota applies to non-premium users only.
QuotaExceeded(cu, qr_count) ==
    ~is_premium(cu) /\ qr_count >= qr_code_limit(cu)

\* Lines 70-76: count the caller's rows, reject with 403 at the limit.
CreateCheck(p, u, url, dyn) ==
    /\ pc[p] = "idle"
    /\ u \in DOMAIN users
    /\ LET cu       == get_current_user(u)
           qr_count == Cardinality(QrsOfUser(u)) IN
       IF QuotaExceeded(cu, qr_count)
       THEN Respond(p, [op |-> "create", user |-> u, status |-> 403])
       ELSE /\ pc'  = [pc EXCEPT ![p] = "create_gen"]
            /\ loc' = [loc EXCEPT ![p] =
                   [op |-> "create", user |-> u, destination_url |-> url,
                    is_dynamic |-> dyn, short_code |-> NoId]]
    /\ UNCHANGED <<users, qrs, scans, files, now>>

\* Lines 79-81: one turn of the loop.  generate_short_code() returns c; a
\* code that some row already carries is thrown away and the loop turns again.
CreateGen(p, c) ==
    /\ pc[p] = "create_gen"
    /\ IF QrByShortCode(c) # {}
       THEN UNCHANGED <<pc, loc>>
       ELSE /\ pc'  = [pc EXCEPT ![p] = "create_save"]
            /\ loc' = [loc EXCEPT ![p].short_code = c]
    /\ UNCHANGED <<users, qrs, scans, files, now>>

\* services/qr_generator.py save_files: the artifacts in the order they are
\* written.  _to_svg returns b"", so no svg file is written and its path is None.
ArtifactOrder == <<"png", "pdf">>

ArtifactFiles(c, n) == {<<c, ArtifactOrder[k]>> : k \in 1..n}

\* Lines 88-97: render and write every artifact.
CreateSave(p) ==
    /\ pc[p] = "create_save"
    /\ files' = files \cup ArtifactFiles(loc[p].short_code, Len(ArtifactOrder))
    /\ pc' = [pc EXCEPT ![p] = "create_commit"]
    /\ UNCHANGED <<users, qrs, scans, now, loc>>

\* Lines 88-97 raising after n artifacts were written: the exception ends
\* the request with a 500.  The failure is in the rendering or in open()
\* (the next file is not touched), or in write() after open(path, "wb")
\* truncated the next file (opened): what was there before is no longer a
\* completely written file.
CreateSaveFail(p, n, opened) ==
    /\ pc[p] = "create_save"
    /\ n \in 0..(Len(ArtifactOrder) - 1)
    /\ files' = (files \cup ArtifactFiles(loc[p].short_code, n))
                   \ (IF opened THEN {<<loc[p].short_code, ArtifactOrder[n + 1]>>}
                                ELSE {})
    /\ Respond(p, [op |-> "create", user |-> loc[p].user, status |-> 500,
                   error |-> "OSError"])
    /\ UNCHANGED <<users, qrs, scans, now>>

\* Lines 100-113: the new row, with the column defaults of models/qrcode.py.
NewQr(l) ==
    [user_id |-> l.user, destination_url |-> l.destination_url,
     short_code |-> l.short_code, is_dynamic |-> l.is_dynamic,
     is_active |-> TRUE, expires_at |-> NoTime,
     total_scans |-> 0, last_scanned_at |-> NoTime,
     file_path_png |-> l.short_code, file_path_svg |-> NoId,
     file_path_pdf |-> l.short_code]

\* An INSERT into a table whose short_code column is not UNIQUE.
CreateCommit_no_unique(p) ==
    /\ pc[p] = "create_commit"
    /\ qrs' = With(qrs, NextId(qrs), NewQr(loc[p]))
    /\ Respond(p, [op |-> "create", user |-> loc[p].user, status |-> 201,
                   id |-> NextId(qrs)])
    /\ UNCHANGED <<users, scans, files, now>>

\* Lines 115-119: INSERT and COMMIT.  short_code is UNIQUE: a row that took
\* the code since the loop looked raises IntegrityError (500).
CreateCommit(p) ==
    /\ pc[p] = "create_commit"
    /\ LET l == loc[p] IN
       IF QrByShortCode(l.short_code) # {}
       THEN /\ Respond(p, [op |-> "create", user |-> l.user, status |-> 500,
                           error |-> "IntegrityError"])
            /\ UNCHANGED qrs
       ELSE /\ qrs' = With(qrs, NextId(qrs), NewQr(l))
            /\ Respond(p, [op |-> "create", user |-> l.user, status |-> 201,
                           id |-> NextId(qrs)])
    /\ UNCHANGED <<users, scans, files, now>>

(***************************************************************************)
(* routes/qr.py  update_qr_code:  PUT /qr/{qr_id}                          *)
(* The body is QRCodeUpdate with exclude_unset: upd is the set of fields   *)
(* the request carries, as a function from field name to value.            *)
(***************************************************************************)
UpdateBodies ==
    {[f \in {} |-> TRUE]}
    \cup {[f \in {"is_active"} |-> b] : b \in BOOLEAN}
    \cup {[f \in {"destination_url"} |-> v] : v \in Urls}
    \cup {("is_active" :> b) @@ ("destination_url" :> v) : b \in BOOLEAN, v \in Urls}

\* Lines 174-175: setattr of every field the body carries.
ApplyUpdate(q, upd) ==
    [q EXCEPT !.is_active = IF "is_active" \in DOMAIN upd
                            THEN upd["is_active"] ELSE @,
              !.destination_url = IF "destination_url" \in DOMAIN upd
                                  THEN upd["destination_url"] ELSE @]

\* Line 177, db.commit(): the UPDATE binds the values that setattr left on
\* the row.  QRCodeUpdate.destination_url is a pydantic HttpUrl (line 33)
\* and qr_update.dict() hands it on as that object, not as a str (the create
\* route converts with str(), line 103; this one does not): the database
\* driver cannot bind it, the commit raises and the session is rolled back.
Bindable(upd) == "destination_url" \notin DOMAIN upd

\* The refusal switched off: a static QR code is treated like a dynamic one.
StaticUrlRefused_never(q, upd) == FALSE

\* Line 167: qr_update.destination_url and not qr_code.is_dynamic
StaticUrlRefused(q, upd) == "destination_url" \in DOMAIN upd /\ ~q.is_dynamic

\* Lines 158-180: ownership (404), the static-URL refusal (403), setattr,
\* commit.
UpdateQr(p, u, i, upd) ==
    /\ pc[p] = "idle"
    /\ u \in DOMAIN users
    /\ IF ~OwnedQr(i, u)
       THEN /\ Respond(p, [op |-> "update", user |-> u, id |-> i, status |-> 404])
            /\ UNCHANGED qrs
       ELSE IF StaticUrlRefused(qrs[i], upd)
       THEN /\ Respond(p, [op |-> "update", user |-> u, id |-> i, status |-> 403,
                           fields |-> DOMAIN upd])
            /\ UNCHANGED qrs
       ELSE IF ~Bindable(upd)
       THEN /\ Respond(p, [op |-> "update", user |-> u, id |-> i, status |-> 500,
                           error |-> "unsupported type"])
            /\ UNCHANGED qrs
       ELSE /\ qrs' = [qrs EXCEPT ![i] = ApplyUpdate(@, upd)]
            /\ Respond(p, [op |-> "update", user |-> u, id |-> i, status |-> 200])
    /\ UNCHANGED <<users, scans, files, now>>

(***************************************************************************)
(* routes/qr.py  delete_qr_code:  DELETE /qr/{qr_id}                       *)
(* db.delete(qr_code) cascades over the relationship QRCode.scans          *)
(* (cascade="all, delete-orphan"): the rows with qr_code_id = id go too.   *)
(***************************************************************************)
DeleteQr(p, u, i) ==
    /\ pc[p] = "idle"
    /\ u \in DOMAIN users
    /\ IF ~OwnedQr(i, u)
       THEN /\ Respond(p, [op |-> "delete", user |-> u, id |-> i, status |-> 404])
            /\ UNCHANGED <<qrs, scans>>
       ELSE /\ qrs'   = Without(qrs, {i})
            /\ scans' = Without(scans, ScansOf(i))
            /\ Respond(p, [op |-> "delete", user |-> u, id |-> i, status |-> 204])
    /\ UNCHANGED <<users, files, now>>

(***************************************************************************)
(* routes/qr.py  the read endpoints                                        *)
(***************************************************************************)
\* get_my_qr_codes: GET /qr/my-qr-codes
ListQrs(p, u) ==
    /\ pc[p] = "idle"
    /\ u \in DOMAIN users
    /\ Respond(p, [op |-> "list", user |-> u, status |-> 200,
                   ids |-> QrsOfUser(u)])
    /\ UNCHANGED <<users, qrs, scans, files, now>>

\* get_qr_code: GET /qr/{qr_id}
GetQr(p, u, i) ==
    /\ pc[p] = "idle"
    /\ u \in DOMAIN users
    /\ IF ~OwnedQr(i, u)
       THEN Respond(p, [op |-> "get", user |-> u, id |-> i, status |-> 404])
       ELSE Respond(p, [op |-> "get", user |-> u, id |-> i, status |-> 200])
    /\ UNCHANGED <<users, qrs, scans, files, now>>

Formats == {"png", "svg", "pdf", "gif"}

\* Lines 223-234: the stored path of the format asked for.
FilePath(q, format) ==
    IF format = "png" THEN q.file_path_png
    ELSE IF format = "svg" THEN q.file_path_svg
    ELSE q.file_path_pdf

\* download_qr_code: GET /qr/{qr_id}/download/{format}
DownloadQr(p, u, i, format) ==
    /\ pc[p] = "idle"
    /\ u \in DOMAIN users
    /\ LET r == [op |-> "download", user |-> u, id |-> i] IN
       IF ~OwnedQr(i, u)
       THEN Respond(p, r @@ [status |-> 404])
       ELSE IF format \notin {"png", "svg", "pdf"}
       THEN Respond(p, r @@ [status |-> 400])
       ELSE IF FilePath(qrs[i], format) = NoId
       THEN Respond(p, r @@ [status |-> 404])
       ELSE Respond(p, r @@ [status |-> 200])
    /\ UNCHANGED <<users, qrs, scans, files, now>>

(***************************************************************************)
(* routes/auth.py  register:  POST /auth/register                          *)
(***************************************************************************)
NewUser(e) ==
    [email |-> e, role |-> "user", subscription_plan |-> "free",
     is_verified |-> FALSE, stripe_customer_id |-> NoId,
     stripe_subscription_id |-> NoId, subscription_ends_at |-> NoTime]

\* An empty lookup: no email is ever found taken.
UserByEmail_none(e) == {}

UserByEmail(e) == {u \in DOMAIN users : users[u].email = e}

\* Lines 66-87: the SELECT by email and the password length test (400),
\* then the pending new User object.
Register(p, e, pwd_ok) ==
    /\ pc[p] = "idle"
    /\ IF UserByEmail(e) # {} \/ ~pwd_ok
       THEN Respond(p, [op |-> "register", email |-> e, status |-> 400])
       ELSE /\ pc'  = [pc EXCEPT ![p] = "register_commit"]
            /\ loc' = [loc EXCEPT ![p] = [op |-> "register", email |-> e]]
    /\ UNCHANGED <<users, qrs, scans, files, now>>

\* Lines 89-99: INSERT and COMMIT.  email is UNIQUE: an account that took
\* the email since the SELECT raises IntegrityError (500).
RegisterCommit(p) ==
    /\ pc[p] = "register_commit"
    /\ LET e == loc[p].email IN
       IF UserByEmail(e) # {}
       THEN /\ Respond(p, [op |-> "register", email |-> e, status |-> 500])
            /\ UNCHANGED users
       ELSE /\ users' = With(users, NextId(users), NewUser(e))
            /\ Respond(p, [op |-> "register", email |-> e, status |-> 201,
                           id |-> NextId(users)])
    /\ UNCHANGED <<qrs, scans, files, now>>

(***************************************************************************)
(* make_admin.py  make_admin: the operator's script, run beside the server.*)
(***************************************************************************)
make_admin(e) ==
    /\ UserByEmail(e) # {}
    /\ LET u == Min(UserByEmail(e)) IN
       users' = [users EXCEPT ![u].role = "admin", ![u].is_verified = TRUE]
    /\ UNCHANGED <<qrs, scans, files, now, pc, loc>>

(***************************************************************************)
(* routes/setup.py  initialize_first_admin:  GET /setup/init-admin         *)
(* key_ok is the outcome of secret_key == settings.ADMIN_SETUP_KEY.        *)
(***************************************************************************)
Admins == {u \in DOMAIN users : users[u].role = "admin"}

\* Lines 27-45: the secret (403), the SELECT of an admin (400), the SELECT
\* of the user by email (404), then the pending role and is_verified.
InitAdminCheck(p, e, key_ok) ==
    /\ pc[p] = "idle"
    /\ IF ~key_ok
       THEN Respond(p, [op |-> "init_admin", email |-> e, status |-> 403])
       ELSE IF Admins # {}
       THEN Respond(p, [op |-> "init_admin", email |-> e, status |-> 400])
       ELSE IF UserByEmail(e) = {}
       THEN Respond(p, [op |-> "init_admin", email |-> e, status |-> 404])
       ELSE /\ pc'  = [pc EXCEPT ![p] = "init_admin_commit"]
            /\ loc' = [loc EXCEPT ![p] =
                   [op |-> "init_admin", email |-> e, id |-> Min(UserByEmail(e))]]
    /\ UNCHANGED <<users, qrs, scans, files, now>>

\* Line 46, db.commit(): UPDATE users SET role, is_verified WHERE id = :id.
\* A row deleted since the SELECT makes the UPDATE match nothing
\* (StaleDataError, 500).
InitAdminCommit(p) ==
    /\ pc[p] = "init_admin_commit"
    /\ LET l == loc[p] IN
       IF l.id \notin DOMAIN users
       THEN /\ Respond(p, [op |-> "init_admin", email |-> l.email, status |-> 500])
            /\ UNCHANGED users
       ELSE /\ users' = [users EXCEPT ![l.id].role = "admin",
                                      ![l.id].is_verified = TRUE]
            /\ Respond(p, [op |-> "init_admin", email |-> l.email, status |-> 200,
                           id |-> l.id])
    /\ UNCHANGED <<qrs, scans, files, now>>

(***************************************************************************)
(* routes/payments.py  stripe_webhook:  POST /payments/webhook             *)
(* ev.valid is the outcome of stripe.Webhook.construct_event.              *)
(***************************************************************************)
TicksPerDay == 2
RenewalDays == 30

EventTypes == {"checkout.session.completed", "customer.subscription.updated",
               "customer.subscription.deleted"}

\* services/stripe_service.py handle_checkout_completed
handle_checkout_completed(session, user, t) ==
    [user EXCEPT
       !.subscription_plan = IF session.plan = "pro" THEN "pro"
                             ELSE IF session.plan = "business" THEN "business"
                             ELSE @,
       !.stripe_subscription_id = session.subscription,
       !.subscription_ends_at = t + RenewalDays * TicksPerDay]

\* services/stripe_service.py handle_subscription_deleted
handle_subscription_deleted(user) ==
    [user EXCEPT !.subscription_plan = "free",
                 !.stripe_subscription_id = NoId,
                 !.subscription_ends_at = NoTime]

UserBySubscription(sid) ==
    {u \in DOMAIN users : users[u].stripe_subscription_id = sid}

\* A verification that accepts every payload and signature.
verify_webhook_signature_accepts_all(ev) == TRUE

\* services/stripe_service.py verify_webhook_signature: construct_event
\* returns the event or raises, and both exceptions become ValueError.
verify_webhook_signature(ev) == ev.valid

\* Lines 76-120.  The two SELECTs, the handler's assignments and db.commit()
\* are one step: the webhook awaits nothing between them that yields.
stripe_webhook(p, ev) ==
    /\ pc[p] = "idle"
    /\ IF ~verify_webhook_signature(ev)
       THEN /\ Respond(p, [op |-> "webhook", status |-> 400])
            /\ UNCHANGED users
       ELSE /\ Respond(p, [op |-> "webhook", status |-> 200])
            /\ IF ev.type = "checkout.session.completed"
                    /\ ev.user_id # NoId /\ ev.user_id \in DOMAIN users
               THEN users' = [users EXCEPT ![ev.user_id] =
                                 handle_checkout_completed(ev, @, now)]
               ELSE IF ev.type = "customer.subscription.deleted"
                       /\ UserBySubscription(ev.subscription) # {}
               THEN users' = [users EXCEPT ![Min(UserBySubscription(ev.subscription))] =
                                 handle_subscription_deleted(@)]
               ELSE UNCHANGED users
    /\ UNCHANGED <<qrs, scans, files, now>>

(***************************************************************************)
(* routes/payments.py  create_checkout_session, create_portal_session      *)
(***************************************************************************)
CheckoutPlans == {"pro", "business", "enterprise"}

\* POST /payments/create-checkout-session.  The service creates a Stripe
\* customer when the row has no stripe_customer_id and uses its id for the
\* session only (stripe_service.py:44-47): nothing is assigned to the row,
\* so the db.commit() of line 47 has nothing to write.
create_checkout_session(p, u, plan) ==
    /\ pc[p] = "idle"
    /\ u \in DOMAIN users
    /\ IF plan \notin {"pro", "business"}
       THEN Respond(p, [op |-> "checkout", user |-> u, status |-> 400])
       ELSE Respond(p, [op |-> "checkout", user |-> u, status |-> 200,
                        plan |-> plan,
                        customer_created |->
                           get_current_user(u).stripe_customer_id = NoId])
    /\ UNCHANGED <<users, qrs, scans, files, now>>

\* POST /payments/create-portal-session
create_portal_session(p, u) ==
    /\ pc[p] = "idle"
    /\ u \in DOMAIN users
    /\ IF get_current_user(u).stripe_customer_id = NoId
       THEN Respond(p, [op |-> "portal", user |-> u, status |-> 400,
                        detail |-> "No active subscription found"])
       ELSE Respond(p, [op |-> "portal", user |-> u, status |-> 200])
    /\ UNCHANGED <<users, qrs, scans, files, now>>

(***************************************************************************)
(* routes/admin.py                                                         *)
(***************************************************************************)
\* The role test switched off: every authenticated user passes.
IsAdmin_anyone(a) == TRUE

\* get_current_admin
IsAdmin(a) == get_current_user(a).role = "admin"

\* get_platform_stats: GET /admin/stats
get_platform_stats(p, a) ==
    /\ pc[p] = "idle"
    /\ a \in DOMAIN users
    /\ IF ~IsAdmin(a)
       THEN Respond(p, [op |-> "admin_stats", user |-> a, status |-> 403])
       ELSE Respond(p, [op |-> "admin_stats", user |-> a, status |-> 200,
                        total_users |-> Cardinality(DOMAIN users),
                        total_qr_codes |-> Cardinality(DOMAIN qrs)])
    /\ UNCHANGED <<users, qrs, scans, files, now>>

\* get_all_users: GET /admin/users
get_all_users(p, a) ==
    /\ pc[p] = "idle"
    /\ a \in DOMAIN users
    /\ IF ~IsAdmin(a)
       THEN Respond(p, [op |-> "admin_users", user |-> a, status |-> 403])
       ELSE Respond(p, [op |-> "admin_users", user |-> a, status |-> 200,
                        ids |-> DOMAIN users])
    /\ UNCHANGED <<users, qrs, scans, files, now>>

\* update_user: PUT /admin/users/{user_id}; NoId/"" stand for a field the
\* body leaves out (None is falsy in the two `if` tests).
update_user(p, a, u, plan, role) ==
    /\ pc[p] = "idle"
    /\ a \in DOMAIN users
    /\ IF ~IsAdmin(a)
       THEN /\ Respond(p, [op |-> "admin_update", user |-> a, status |-> 403])
            /\ UNCHANGED users
       ELSE IF u \notin DOMAIN users
       THEN /\ Respond(p, [op |-> "admin_update", user |-> a, status |-> 404])
            /\ UNCHANGED users
       ELSE /\ users' = [users EXCEPT
                   ![u].subscription_plan = IF plan # "" THEN plan ELSE @,
                   ![u].role = IF role # "" THEN role ELSE @]
            /\ Respond(p, [op |-> "admin_update", user |-> a, status |-> 200])
    /\ UNCHANGED <<qrs, scans, files, now>>

\* delete_user: DELETE /admin/users/{user_id}.  Line 188 is a bulk
\* DELETE FROM qr_codes WHERE user_id = :id: a Query.delete() runs no ORM
\* cascade, so the rows of qr_scans stay.
delete_user(p, a, u) ==
    /\ pc[p] = "idle"
    /\ a \in DOMAIN users
    /\ IF ~IsAdmin(a)
       THEN /\ Respond(p, [op |-> "admin_delete", user |-> a, status |-> 403])
            /\ UNCHANGED <<users, qrs>>
       ELSE IF u \notin DOMAIN users
       THEN /\ Respond(p, [op |-> "admin_delete", user |-> a, status |-> 404])
            /\ UNCHANGED <<users, qrs>>
       ELSE IF users[u].role = "admin" /\ u # a
       THEN /\ Respond(p, [op |-> "admin_delete", user |-> a, status |-> 403])
            /\ UNCHANGED <<users, qrs>>
       ELSE /\ qrs'   = Without(qrs, QrsOfUser(u))
            /\ users' = Without(users, {u})
            /\ Respond(p, [op |-> "admin_delete", user |-> a, status |-> 200])
    /\ UNCHANGED <<scans, files, now>>

(***************************************************************************)
(* routes/analytics.py  get_qr_analytics:  GET /analytics/{qr_id}          *)
(* Every count is a SELECT of its own, run outside any transaction the     *)
(* handler controls, so each sees what is committed when it runs.          *)
(***************************************************************************)
WeekDays  == 7
MonthDays == 30

\* now.replace(hour=0, minute=0, second=0, microsecond=0)
today(t)     == (t \div TicksPerDay) * TicksPerDay
week_ago(t)  == t - WeekDays * TicksPerDay
month_ago(t) == t - MonthDays * TicksPerDay

\* db.query(QRScan).filter(qr_code_id == i, scanned_at >= since).count()
CountSince(i, since) ==
    Cardinality({s \in ScansOf(i) : scans[s].scanned_at >= since})

\* The access check with the plan tested before the ownership.
AnalyticsAccess_plan_first(u, i) ==
    IF ~is_premium(get_current_user(u)) THEN 403
    ELSE IF ~OwnedQr(i, u) THEN 404
    ELSE 200

\* Lines 47-60: the ownership query first (404), then the plan (403).
AnalyticsAccess(u, i) ==
    IF ~OwnedQr(i, u) THEN 404
    ELSE IF ~is_premium(get_current_user(u)) THEN 403
    ELSE 200

\* Lines 47-66: the access check, then `now` and the window starts.
AnalyticsBegin(p, u, i) ==
    /\ pc[p] = "idle"
    /\ u \in DOMAIN users
    /\ IF AnalyticsAccess(u, i) # 200
       THEN Respond(p, [op |-> "analytics", user |-> u, id |-> i,
                        status |-> AnalyticsAccess(u, i)])
       ELSE /\ pc'  = [pc EXCEPT ![p] = "an_total"]
            /\ loc' = [loc EXCEPT ![p] =
                   [op |-> "analytics", user |-> u, id |-> i, t |-> now,
                    total_scans |-> 0, scans_today |-> 0,
                    scans_this_week |-> 0, scans_this_month |-> 0,
                    top_countries |-> <<>>, top_devices |-> <<>>]]
    /\ UNCHANGED <<users, qrs, scans, files, now>>

\* Line 69
AnalyticsTotal(p) ==
    /\ pc[p] = "an_total"
    /\ loc' = [loc EXCEPT ![p].total_scans = Cardinality(ScansOf(loc[p].id))]
    /\ pc'  = [pc EXCEPT ![p] = "an_today"]
    /\ UNCHANGED <<users, qrs, scans, files, now>>

\* Lines 72-75
AnalyticsToday(p) ==
    /\ pc[p] = "an_today"
    /\ loc' = [loc EXCEPT ![p].scans_today =
                  CountSince(loc[p].id, today(loc[p].t))]
    /\ pc'  = [pc EXCEPT ![p] = "an_week"]
    /\ UNCHANGED <<users, qrs, scans, files, now>>

\* Lines 78-81
AnalyticsWeek(p) ==
    /\ pc[p] = "an_week"
    /\ loc' = [loc EXCEPT ![p].scans_this_week =
                  CountSince(loc[p].id, week_ago(loc[p].t))]
    /\ pc'  = [pc EXCEPT ![p] = "an_month"]
    /\ UNCHANGED <<users, qrs, scans, files, now>>

\* Lines 84-87
AnalyticsMonth(p) ==
    /\ pc[p] = "an_month"
    /\ loc' = [loc EXCEPT ![p].scans_this_month =
                  CountSince(loc[p].id, month_ago(loc[p].t))]
    /\ pc'  = [pc EXCEPT ![p] = "an_countries"]
    /\ UNCHANGED <<users, qrs, scans, files, now>>

TopN    == 5       \* .limit(5) of the two group queries
RecentN == 10      \* .limit(10) of the recent scans query

\* SELECT col, count(id) ... WHERE qr_code_id = i AND col IS NOT NULL
\* GROUP BY col: the groups and the number of rows of each.
GroupsOf(i, col, null) == {scans[s][col] : s \in ScansOf(i)} \ {null}
GroupCount(i, col, g)  == Cardinality({s \in ScansOf(i) : scans[s][col] = g})

\* ... ORDER BY count(id) DESC LIMIT n: every result list the database may
\* return (groups with equal counts come in any order).
TopGroups(i, col, null, n) ==
    LET G == GroupsOf(i, col, null)
        k == Min({n, Cardinality(G)})
    IN  {sq \in [1..k -> G] :
            /\ \A a, b \in 1..k : a < b =>
                  /\ sq[a] # sq[b]
                  /\ GroupCount(i, col, sq[a]) >= GroupCount(i, col, sq[b])
            /\ \A g \in G \ {sq[a] : a \in 1..k} :
                  \A a \in 1..k : GroupCount(i, col, sq[a]) >= GroupCount(i, col, g)}

\* The list of (group, count) rows as the handler turns it into dicts.
GroupRows(i, col, sq) ==
    [a \in 1..Len(sq) |-> [key |-> sq[a], count |-> GroupCount(i, col, sq[a])]]

\* Lines 90-96: top countries
AnalyticsCountries(p) ==
    /\ pc[p] = "an_countries"
    /\ \E sq \in TopGroups(loc[p].id, "country", NoId, TopN) :
          loc' = [loc EXCEPT ![p].top_countries = GroupRows(loc[p].id, "country", sq)]
    /\ pc'  = [pc EXCEPT ![p] = "an_devices"]
    /\ UNCHANGED <<users, qrs, scans, files, now>>

\* Lines 99-105: top devices (device_type is never NULL on a row that
\* scan_qr_code wrote)
AnalyticsDevices(p) ==
    /\ pc[p] = "an_devices"
    /\ \E sq \in TopGroups(loc[p].id, "device_type", "", TopN) :
          loc' = [loc EXCEPT ![p].top_devices = GroupRows(loc[p].id, "device_type", sq)]
    /\ pc'  = [pc EXCEPT ![p] = "an_recent"]
    /\ UNCHANGED <<users, qrs, scans, files, now>>

\* Lines 108-110: ... ORDER BY scanned_at DESC LIMIT n: every result list
\* the database may return (rows of one instant come in any order).
RecentScans(i, n) ==
    LET S == ScansOf(i)
        k == Min({n, Cardinality(S)})
    IN  {sq \in [1..k -> S] :
            /\ \A a, b \in 1..k : a < b =>
                  sq[a] # sq[b] /\ scans[sq[a]].scanned_at >= scans[sq[b]].scanned_at
            /\ \A s \in S \ {sq[a] : a \in 1..k} :
                  \A a \in 1..k : scans[sq[a]].scanned_at >= scans[s].scanned_at}

\* response_model=QRAnalytics declares top_countries and top_devices as
\* List[Dict[str, int]] (lines 33-34); the handler returns dicts
\* {"country": <str>, "count": <int>} and {"device": <str>, "count": <int>}
\* (lines 118-119).  A device or country name is not an integer, so the
\* response validates only when both lists are empty.
ResponseValidates(top_countries, top_devices) ==
    Len(top_countries) = 0 /\ Len(top_devices) = 0

\* Lines 108-130: the recent scans query, then the response, which FastAPI
\* validates against the response model (ResponseValidationError: 500).
AnalyticsRecent(p) ==
    /\ pc[p] = "an_recent"
    /\ LET l == loc[p] IN
       IF ResponseValidates(l.top_countries, l.top_devices)
       THEN \E sq \in RecentScans(l.id, RecentN) :
               Respond(p, [op |-> "analytics", user |-> l.user, id |-> l.id,
                           status |-> 200,
                           total_scans |-> l.total_scans,
                           scans_today |-> l.scans_today,
                           scans_this_week |-> l.scans_this_week,
                           scans_this_month |-> l.scans_this_month,
                           top_countries |-> l.top_countries,
                           top_devices |-> l.top_devices,
                           recent_scans |-> [a \in 1..Len(sq) |->
                               [timestamp |-> scans[sq[a]].scanned_at,
                                device_type |-> scans[sq[a]].device_type]]])
       ELSE Respond(p, [op |-> "analytics", user |-> l.user, id |-> l.id,
                        status |-> 500, error |-> "ResponseValidationError",
                        total_scans |-> l.total_scans,
                        top_devices |-> l.top_devices])
    /\ UNCHANGED <<users, qrs, scans, files, now>>

(***************************************************************************)
(* routes/analytics.py  get_dashboard_summary:  GET /analytics/dashboard/  *)
(* summary.  Each query is a SELECT of its own.                            *)
(***************************************************************************)
\* db.query(QRScan).filter(QRScan.qr_code_id.in_(qr_ids)[, scanned_at >= since])
ScansIn(qr_ids) == {s \in DOMAIN scans : scans[s].qr_code_id \in qr_ids}

\* Lines 141-145: the user's QR codes; qr_ids is kept for the later queries.
DashboardBegin(p, u) ==
    /\ pc[p] = "idle"
    /\ u \in DOMAIN users
    /\ pc'  = [pc EXCEPT ![p] = "dash_total"]
    /\ loc' = [loc EXCEPT ![p] =
           [op |-> "dashboard", user |-> u, qr_ids |-> QrsOfUser(u),
            total_qr_codes |-> Cardinality(QrsOfUser(u)),
            total_scans |-> 0, scans_this_month |-> 0]]
    /\ UNCHANGED <<users, qrs, scans, files, now>>

\* Line 148
DashboardTotal(p) ==
    /\ pc[p] = "dash_total"
    /\ loc' = [loc EXCEPT ![p].total_scans = Cardinality(ScansIn(loc[p].qr_ids))]
    /\ pc'  = [pc EXCEPT ![p] = "dash_month"]
    /\ UNCHANGED <<users, qrs, scans, files, now>>

\* Lines 151-155
DashboardMonth(p) ==
    /\ pc[p] = "dash_month"
    /\ loc' = [loc EXCEPT ![p].scans_this_month =
                  Cardinality({s \in ScansIn(loc[p].qr_ids) :
                                  scans[s].scanned_at >= month_ago(now)})]
    /\ pc'  = [pc EXCEPT ![p] = "dash_top"]
    /\ UNCHANGED <<users, qrs, scans, files, now>>

\* Lines 160-166: QRCode JOIN QRScan WHERE QRCode.id IN qr_ids GROUP BY
\* QRCode.id ORDER BY count DESC, first row: every QR code the database may
\* return (NoId when the join is empty).
MostScanned(qr_ids) ==
    LET joined == {i \in qr_ids \cap DOMAIN qrs : ScansOf(i) # {}}
    IN  IF joined = {} THEN {NoId}
        ELSE {i \in joined : \A j \in joined :
                 Cardinality(ScansOf(i)) >= Cardinality(ScansOf(j))}

\* Lines 158-182: the most scanned QR code and the response.
DashboardTop(p) ==
    /\ pc[p] = "dash_top"
    /\ LET l == loc[p] IN
       \E m \in MostScanned(l.qr_ids) :
          Respond(p, [op |-> "dashboard", user |-> l.user, status |-> 200,
                      qr_ids |-> l.qr_ids,
                      total_qr_codes |-> l.total_qr_codes,
                      total_scans |-> l.total_scans,
                      scans_this_month |-> l.scans_this_month,
                      most_scanned_qr |-> m,
                      most_scanned_scans |-> IF m = NoId THEN 0
                                             ELSE Cardinality(ScansOf(m))])
    /\ UNCHANGED <<users, qrs, scans, files, now>>

(***************************************************************************)
(* The wall clock (datetime.utcnow()).                                     *)
(***************************************************************************)
Tick(d) ==
    /\ now' = now + d
    /\ UNCHANGED <<users, qrs, scans, files, pc, loc>>

(***************************************************************************)
(* The system: a fresh database (init_db creates empty tables), every      *)
(* worker idle.                                                            *)
(***************************************************************************)
EmptyTable == [x \in {} |-> 0]

\* Requests being served that will add a row to a table.
InFlight(states) == Cardinality({p \in Procs : pc[p] \in states})

CreateStates == {"create_gen", "create_save", "create_commit"}
ScanStates   == {"scan_commit"}

DesktopUA == [is_mobile |-> FALSE, is_tablet |-> FALSE, is_pc |-> TRUE]

Events ==
    [valid : BOOLEAN, type : EventTypes, user_id : {1}, plan : {"pro"},
     subscription : {1}]

\* The scan requests of worker p, while ids of qr_scans stay within cap.
ScanSteps(p, cap) ==
    \/ /\ NextId(scans) + InFlight(ScanStates) <= cap
       /\ \E c \in Codes : ScanRead(p, c, DesktopUA)
    \/ ScanCommit(p)
    \/ ScanCommitFail(p)
    \/ ScanRedirect(p)

\* The create requests of worker p, while ids of qr_codes stay within cap.
CreateSteps(p, cap, codes) ==
    \/ /\ NextId(qrs) + InFlight(CreateStates) <= cap
       /\ \E u \in DOMAIN users : CreateCheck(p, u, 1, TRUE)
    \/ \E c \in codes : CreateGen(p, c)
    \/ CreateSave(p)
    \/ CreateCommit(p)

\* The analytics requests of worker p.
AnalyticsSteps(p, ids) ==
    \/ \E u \in DOMAIN users, i \in ids : AnalyticsBegin(p, u, i)
    \/ AnalyticsTotal(p)
    \/ AnalyticsToday(p)
    \/ AnalyticsWeek(p)
    \/ AnalyticsMonth(p)
    \/ AnalyticsCountries(p)
    \/ AnalyticsDevices(p)
    \/ AnalyticsRecent(p)

(***************************************************************************)
(* Scan ingestion: the owner's QR code is in the table (created, never     *)
(* scanned); workers scan it, the owner updates and deletes it, time       *)
(* passes.  No route of the program writes expires_at, so the row is drawn *)
(* with every value the nullable column admits.                            *)
(***************************************************************************)
SeededQr(u, c, exp) ==
    [NewQr([user |-> u, destination_url |-> 1, short_code |-> c,
            is_dynamic |-> TRUE]) EXCEPT !.expires_at = exp]

Init ==
    /\ users = (1 :> NewUser(1))
    /\ \E exp \in {NoTime} \cup 0..(MaxTime - 1) : qrs = (1 :> SeededQr(1, 1, exp))
    /\ scans = EmptyTable
    /\ files = ArtifactFiles(1, Len(ArtifactOrder))
    /\ now   = 0
    /\ pc    = [p \in Procs |-> "idle"]
    /\ loc   = [p \in Procs |-> Idle]

Next ==
    \/ \E p \in Procs : Return(p) \/ ScanSteps(p, MaxScans)
    \/ \E p \in {1}, u \in DOMAIN users, i \in DOMAIN qrs :
          \/ \E b \in BOOLEAN : UpdateQr(p, u, i, [f \in {"is_active"} |-> b])
          \/ DeleteQr(p, u, i)
    \/ now < MaxTime /\ Tick(1)

Spec == Init /\ [][Next]_vars

(***************************************************************************)
(* Sequential life cycle: one worker serves one request after the other,   *)
(* starting from the empty database that init_db creates.                  *)
(***************************************************************************)
InitLife ==
    /\ users = EmptyTable
    /\ qrs   = EmptyTable
    /\ scans = EmptyTable
    /\ files = {}
    /\ now   = 0
    /\ pc    = [p \in Procs |-> "idle"]
    /\ loc   = [p \in Procs |-> Idle]

NextLife ==
    \/ \E p \in {1} :
          \/ Return(p)
          \/ /\ NextId(users) <= MaxUsers
             /\ \E e \in Emails : Register(p, e, TRUE)
          \/ RegisterCommit(p)
          \/ ScanSteps(p, MaxScans)
          \/ CreateSteps(p, MaxQRs, Codes)
          \/ \E u \in DOMAIN users, i \in DOMAIN qrs :
                \/ \E b \in BOOLEAN : UpdateQr(p, u, i, [f \in {"is_active"} |-> b])
                \/ DeleteQr(p, u, i)
          \/ \E a \in DOMAIN users, u \in DOMAIN users :
                \/ delete_user(p, a, u)
                \/ update_user(p, a, u, "pro", "")
          \/ \E ev \in Events : stripe_webhook(p, ev)
    \/ \E e \in Emails : make_admin(e)

SpecLife == InitLife /\ [][NextLife]_vars

(***************************************************************************)
(* Analytics: user 1 owns QR code 1 and holds any of the plans, user 2     *)
(* holds a paid plan and owns nothing.  Worker 1 serves analytics          *)
(* requests while worker 2 serves scans; the clock moves along Instants.   *)
(***************************************************************************)
Instants ==
    {0, 1, TicksPerDay, WeekDays * TicksPerDay + 1, MonthDays * TicksPerDay + 1}

InitAnalytics ==
    /\ \E plan \in SubscriptionPlan :
          users = (1 :> [NewUser(1) EXCEPT !.subscription_plan = plan])
                  @@ (2 :> [NewUser(2) EXCEPT !.subscription_plan = "pro"])
    /\ qrs   = (1 :> SeededQr(1, 1, NoTime))
    /\ scans = EmptyTable
    /\ files = ArtifactFiles(1, Len(ArtifactOrder))
    /\ now   = 0
    /\ pc    = [p \in Procs |-> "idle"]
    /\ loc   = [p \in Procs |-> Idle]

NextAnalytics ==
    \/ \E p \in Procs : Return(p)
    \/ \E p \in {1} : AnalyticsSteps(p, 1..MaxQRs)
    \/ \E p \in {2} : ScanSteps(p, MaxScans)
    \/ \E p \in {2}, u \in DOMAIN users, i \in DOMAIN qrs : DeleteQr(p, u, i)
    \/ \E t \in Instants : t > now /\ Tick(t - now)

SpecAnalytics == InitAnalytics /\ [][NextAnalytics]_vars

(***************************************************************************)
(* Creation: user 1 is on the free plan, user 2 on a paid plan; the        *)
(* workers serve create requests of both.                                  *)
(***************************************************************************)
MaxCreated == 4     \* largest id of qr_codes (SpecCreate)

InitCreate ==
    /\ users = (1 :> NewUser(1))
               @@ (2 :> [NewUser(2) EXCEPT !.subscription_plan = "pro"])
    /\ qrs   = EmptyTable
    /\ scans = EmptyTable
    /\ files = {}
    /\ now   = 0
    /\ pc    = [p \in Procs |-> "idle"]
    /\ loc   = [p \in Procs |-> Idle]

\* generate_short_code draws at random and the codes are interchangeable:
\* a draw is either one of the codes drawn before (a row carries it or a
\* request in flight holds it) or a code never drawn, which the least such
\* code stands for.
DrawnCodes ==
    {qrs[i].short_code : i \in DOMAIN qrs}
       \cup {loc[p].short_code : p \in {q \in Procs : pc[q] \in {"create_save", "create_commit"}}}

Draws ==
    DrawnCodes \cup {Min({c \in 1..(Cardinality(DrawnCodes) + 1) : c \notin DrawnCodes})}

NextCreate ==
    \E p \in Procs : Return(p) \/ CreateSteps(p, MaxCreated, Draws)

SpecCreate == InitCreate /\ [][NextCreate]_vars

(***************************************************************************)
(* Short codes: one user creates QR codes on two workers, with short codes *)
(* that may collide; worker 1 also serves the user's update requests, with *)
(* every body, and scans.                                                  *)
(***************************************************************************)
InitQr ==
    /\ users = (1 :> NewUser(1))
    /\ qrs   = EmptyTable
    /\ scans = EmptyTable
    /\ files = {}
    /\ now   = 0
    /\ pc    = [p \in Procs |-> "idle"]
    /\ loc   = [p \in Procs |-> Idle]

NextQr ==
    \/ \E p \in Procs : Return(p)
    \/ \E p \in {1, 2} : CreateSteps(p, MaxQRs, Draws)
    \/ \E p \in {1}, u \in DOMAIN users, i \in 1..MaxQRs, upd \in UpdateBodies :
          UpdateQr(p, u, i, upd)
    \/ \E p \in {1} : ScanSteps(p, MaxScans - 1)

SpecQr == InitQr /\ [][NextQr]_vars

(***************************************************************************)
(* Artifacts: user 1 (free) and user 2 (paid) create QR codes on all       *)
(* workers; short codes may collide and rendering or writing may fail.     *)
(***************************************************************************)
NextArtifacts ==
    \E p \in Procs :
       \/ Return(p)
       \/ CreateSteps(p, MaxQRs, Draws)
       \/ \E n \in 0..(Len(ArtifactOrder) - 1), opened \in BOOLEAN :
             CreateSaveFail(p, n, opened)

SpecArtifacts == InitCreate /\ [][NextArtifacts]_vars

(***************************************************************************)
(* Ownership: users 1 and 2 have created one QR code each.  Worker 1       *)
(* serves the get, list, update, delete and download requests of both      *)
(* users for every id, worker 2 scans.                                     *)
(***************************************************************************)
InitOwner ==
    /\ users = (1 :> NewUser(1)) @@ (2 :> NewUser(2))
    /\ qrs   = (1 :> SeededQr(1, 1, NoTime)) @@ (2 :> SeededQr(2, 2, NoTime))
    /\ scans = EmptyTable
    /\ files = ArtifactFiles(1, Len(ArtifactOrder)) \cup ArtifactFiles(2, Len(ArtifactOrder))
    /\ now   = 0
    /\ pc    = [p \in Procs |-> "idle"]
    /\ loc   = [p \in Procs |-> Idle]

NextOwner ==
    \/ \E p \in Procs : Return(p)
    \/ \E p \in {1}, u \in DOMAIN users, i \in 1..MaxQRs :
          \/ \E upd \in UpdateBodies : UpdateQr(p, u, i, upd)
          \/ DeleteQr(p, u, i)
          \/ GetQr(p, u, i)
          \/ ListQrs(p, u)
          \/ \E format \in Formats : DownloadQr(p, u, i, format)
    \/ \E p \in {2} : ScanSteps(p, MaxScans)

SpecOwner == InitOwner /\ [][NextOwner]_vars

(***************************************************************************)
(* Billing: one registered user, whose row may carry a Stripe customer id. *)
(* Worker 1 serves webhook requests with every event of BillingEvents      *)
(* while time passes.  metadata.user_id names the user, another id or      *)
(* nothing; metadata.plan is what the checkout session was created with:   *)
(* "pro", "business", another string, or nothing (NoPlan).                 *)
(***************************************************************************)
NoPlan == "none"

MetadataPlans == {"pro", "business", "PRO", NoPlan}

BillingEvents ==
    [valid : BOOLEAN, type : EventTypes, user_id : {NoId} \cup 1..MaxUsers,
     plan : MetadataPlans, subscription : 1..MaxUsers]

InitBilling ==
    /\ \E c \in {NoId, 1} :
          users = (1 :> [NewUser(1) EXCEPT !.stripe_customer_id = c])
    /\ qrs   = EmptyTable
    /\ scans = EmptyTable
    /\ files = {}
    /\ now   = 0
    /\ pc    = [p \in Procs |-> "idle"]
    /\ loc   = [p \in Procs |-> Idle]

NextBilling ==
    \/ \E p \in Procs : Return(p)
    \/ \E p \in {1}, ev \in BillingEvents : stripe_webhook(p, ev)
    \/ now < MaxTime /\ Tick(1)

SpecBilling == InitBilling /\ [][NextBilling]_vars

(***************************************************************************)
(*                         Properties                                      *)
(***************************************************************************)

(***************************************************************************)
(* Registration: the empty database; every worker serves register          *)
(* requests for any email, with a password of either length class, while   *)
(* the operator promotes accounts and admins delete them.                  *)
(***************************************************************************)
RegisterStates == {"register_commit"}

NextRegister ==
    \/ \E p \in Procs :
          \/ Return(p)
          \/ /\ NextId(users) + InFlight(RegisterStates) <= MaxUsers
             /\ \E e \in Emails, pwd_ok \in BOOLEAN : Register(p, e, pwd_ok)
          \/ RegisterCommit(p)
    \/ \E p \in {1}, a \in DOMAIN users, u \in DOMAIN users : delete_user(p, a, u)
    \/ \E e \in Emails : make_admin(e)

SpecRegister == InitLife /\ [][NextRegister]_vars


(***************************************************************************)
(* Device classification: the seeded QR code is scanned by clients whose   *)
(* User-Agent header parses to any combination of the three flags (an     *)
(* empty or malformed header parses to all three false).                   *)
(***************************************************************************)
NextDevice ==
    \E p \in Procs :
       \/ Return(p)
       \/ /\ NextId(scans) + InFlight(ScanStates) <= MaxScans
          /\ \E c \in Codes, ua \in UserAgents : ScanRead(p, c, ua)
       \/ ScanCommit(p)
       \/ ScanCommitFail(p)
       \/ ScanRedirect(p)

InitDevice == Init /\ qrs[1].expires_at = NoTime

SpecDevice == InitDevice /\ [][NextDevice]_vars


(***************************************************************************)
(* Analytics lists: user 1 holds the pro plan and owns QR code 1; worker 1 *)
(* serves the owner's analytics requests while worker 2 serves scans from  *)
(* clients of every device class; the clock moves.                         *)
(***************************************************************************)
InitBreakdown == InitAnalytics /\ users[1].subscription_plan = "pro"

NextBreakdown ==
    \/ \E p \in Procs : Return(p)
    \/ \E p \in {1} : AnalyticsSteps(p, {1})
    \/ \E p \in {2} :
          \/ /\ NextId(scans) + InFlight(ScanStates) <= MaxScans
             /\ \E ua \in UserAgents : ScanRead(p, 1, ua)
          \/ ScanCommit(p)
          \/ ScanRedirect(p)
    \/ now < MaxTime /\ Tick(1)

SpecBreakdown == InitBreakdown /\ [][NextBreakdown]_vars


(***************************************************************************)
(* Dashboard: users 1 and 2 own one QR code each; worker 1 serves the      *)
(* dashboard requests of both while worker 2 serves scans of both QR codes *)
(* and the clock moves.                                                    *)
(***************************************************************************)
DashboardSteps(p) ==
    \/ \E u \in DOMAIN users : DashboardBegin(p, u)
    \/ DashboardTotal(p)
    \/ DashboardMonth(p)
    \/ DashboardTop(p)

NextDashboard ==
    \/ \E p \in Procs : Return(p)
    \/ \E p \in {1} : DashboardSteps(p)
    \/ \E p \in {2} : ScanSteps(p, MaxScans)
    \/ now < MaxTime /\ Tick(1)

SpecDashboard == InitOwner /\ [][NextDashboard]_vars


(***************************************************************************)
(* Static and dynamic QR codes: user 1 owns the static QR code 1 and the   *)
(* dynamic QR code 2; worker 1 serves the owner's update requests with     *)
(* every body while worker 2 serves scans of both.                         *)
(***************************************************************************)
InitStatic ==
    /\ users = (1 :> NewUser(1))
    /\ qrs   = (1 :> [SeededQr(1, 1, NoTime) EXCEPT !.is_dynamic = FALSE])
               @@ (2 :> SeededQr(1, 2, NoTime))
    /\ scans = EmptyTable
    /\ files = ArtifactFiles(1, Len(ArtifactOrder)) \cup ArtifactFiles(2, Len(ArtifactOrder))
    /\ now   = 0
    /\ pc    = [p \in Procs |-> "idle"]
    /\ loc   = [p \in Procs |-> Idle]

NextStatic ==
    \/ \E p \in Procs : Return(p)
    \/ \E p \in {1}, u \in DOMAIN users, i \in DOMAIN qrs, upd \in UpdateBodies :
          UpdateQr(p, u, i, upd)
    \/ \E p \in {2} : ScanSteps(p, MaxScans)
    \/ now < MaxTime /\ Tick(1)

SpecStatic == InitStatic /\ [][NextStatic]_vars


(***************************************************************************)
(* Plan gating: user 1 is on the free plan and owns three QR codes (the    *)
(* free quota).  Worker 1 receives the billing events, worker 2 serves the *)
(* user's create and analytics requests and scans.                         *)
(***************************************************************************)
InitGating ==
    /\ users = (1 :> NewUser(1))
    /\ qrs   = [i \in 1..FreeQrLimit |-> SeededQr(1, i, NoTime)]
    /\ scans = EmptyTable
    /\ files = UNION {ArtifactFiles(i, Len(ArtifactOrder)) : i \in 1..FreeQrLimit}
    /\ now   = 0
    /\ pc    = [p \in Procs |-> "idle"]
    /\ loc   = [p \in Procs |-> Idle]

NextGating ==
    \/ \E p \in Procs : Return(p)
    \/ \E p \in {1}, ev \in BillingEvents : stripe_webhook(p, ev)
    \/ \E p \in {2} :
          \/ CreateSteps(p, MaxCreated, Draws)
          \/ AnalyticsSteps(p, {1})
          \/ ScanSteps(p, MaxScans - 1)

SpecGating == InitGating /\ [][NextGating]_vars


(***************************************************************************)
(* Checkout: one user, with or without a Stripe customer id on the row;    *)
(* the workers serve the user's checkout and portal requests and receive   *)
(* the verified billing events that follow a payment.                      *)
(***************************************************************************)
PaidEvents ==
    {ev \in BillingEvents : ev.valid /\ ev.user_id = 1 /\ ev.plan \in {"pro", "business"}}

NextCheckout ==
    \E p \in Procs :
       \/ Return(p)
       \/ \E u \in DOMAIN users, plan \in CheckoutPlans : create_checkout_session(p, u, plan)
       \/ \E u \in DOMAIN users : create_portal_session(p, u)
       \/ \E ev \in PaidEvents : stripe_webhook(p, ev)

SpecCheckout == InitBilling /\ [][NextCheckout]_vars


(***************************************************************************)
(* Setup: two registered users, no admin yet.  The workers serve           *)
(* init-admin calls with either secret and the admin endpoints that change *)
(* roles and delete users.                                                 *)
(***************************************************************************)
InitSetup ==
    /\ users = [u \in 1..2 |-> NewUser(u)]
    /\ qrs   = EmptyTable
    /\ scans = EmptyTable
    /\ files = {}
    /\ now   = 0
    /\ pc    = [p \in Procs |-> "idle"]
    /\ loc   = [p \in Procs |-> Idle]

NextSetup ==
    \E p \in Procs :
       \/ Return(p)
       \/ \E e \in Emails, key_ok \in BOOLEAN : InitAdminCheck(p, e, key_ok)
       \/ InitAdminCommit(p)
       \/ \E a \in DOMAIN users, u \in DOMAIN users, role \in {"user", "admin"} :
             update_user(p, a, u, "", role)
       \/ \E a \in DOMAIN users, u \in DOMAIN users : delete_user(p, a, u)

SpecSetup == InitSetup /\ [][NextSetup]_vars


(***************************************************************************)
(* Administration: users 1 and 2 are admins, user 3 is not and owns QR     *)
(* code 1, which was scanned once.  Two workers serve the admin endpoints  *)
(* for every caller and every target.                                      *)
(***************************************************************************)
InitAdmin ==
    /\ users = [u \in 1..3 |->
                   [NewUser(u) EXCEPT !.role = IF u = 3 THEN "user" ELSE "admin",
                                      !.is_verified = (u # 3)]]
    /\ qrs   = (1 :> [SeededQr(3, 1, NoTime) EXCEPT !.total_scans = 1,
                                                    !.last_scanned_at = 0])
    /\ scans = (1 :> ScanRow([id |-> 1, device_type |-> "desktop"], 0))
    /\ files = ArtifactFiles(1, Len(ArtifactOrder))
    /\ now   = 0
    /\ pc    = [p \in Procs |-> "idle"]
    /\ loc   = [p \in Procs |-> Idle]

NextAdmin ==
    \/ \E p \in Procs : Return(p)
    \/ \E p \in {1, 2} :
          \/ \E a \in DOMAIN users : get_platform_stats(p, a)
          \/ \E a \in DOMAIN users : get_all_users(p, a)
          \/ \E a \in DOMAIN users, u \in 1..3, role \in {"user", "admin"} :
                update_user(p, a, u, "", role)
          \/ \E a \in DOMAIN users, u \in 1..3 : delete_user(p, a, u)

SpecAdmin == InitAdmin /\ [][NextAdmin]_vars


(***************************************************************************)
(* Scan counters: the seeded QR code is scanned by all workers, one scan   *)
(* more than in Spec, while the clock moves.                               *)
(***************************************************************************)
ScanCap == MaxScans + 1

NextCounter ==
    \/ \E p \in Procs : Return(p) \/ ScanSteps(p, ScanCap)
    \/ now < MaxTime /\ Tick(1)

SpecCounter == InitDevice /\ [][NextCounter]_vars


\* Worker p starts a request of kind op in this step.
Starts(p, op) == pc[p] = "idle" /\ pc'[p] # "idle" /\ loc'[p].op = op

\* Worker p ends a request with this status in this step.
Answers(p, status) == pc[p] # "done" /\ pc'[p] = "done" /\ loc'[p].status = status

\* C1: in every reachable state, for every existing QR code, total_scans
\* equals the number of qr_scans rows that reference the QR code.
C1_CounterEqualsScanRows ==
    \A i \in DOMAIN qrs : qrs[i].total_scans = Cardinality(ScansOf(i))

\* C2: the commit of a scan request inserts exactly one qr_scans row, a row
\* of the scanned QR code, raises that QR code's total_scans by exactly 1
\* and sets last_scanned_at, all in the one step.
C2_ScanAddsOneRowAndOneCount ==
    [][\A p \in Procs :
          (pc[p] = "scan_commit" /\ pc'[p] = "scan_redirect") =>
             LET i == loc[p].id IN
             /\ i \in DOMAIN qrs'
             /\ Cardinality(DOMAIN scans') = Cardinality(DOMAIN scans) + 1
             /\ Cardinality(ScansOf(i)') = Cardinality(ScansOf(i)) + 1
             /\ qrs'[i].total_scans = qrs[i].total_scans + 1
             /\ qrs'[i].last_scanned_at = now]_vars

\* C3: once all concurrent scan requests have completed, no counter update
\* is lost: the counter of every QR code has grown by the number of rows the
\* scans added (every QR code starts with counter 0 and no rows).
C3_NoLostUpdate ==
    (\A p \in Procs : pc[p] \in {"idle", "done"}) =>
        \A i \in DOMAIN qrs : qrs[i].total_scans = Cardinality(ScansOf(i))

\* C4: a scan of a QR code that is inactive or whose expires_at is in the
\* past is answered 403 and changes no table; a QR code without expires_at
\* is never treated as expired (when active, its scan goes on to the commit).
C4_InactiveOrExpiredIsRefused ==
    [][\A p \in Procs :
          Starts(p, "scan") =>
             \A i \in DOMAIN qrs :
                (qrs[i].short_code = loc'[p].code) =>
                   /\ (~qrs[i].is_active
                         \/ (qrs[i].expires_at # NoTime /\ qrs[i].expires_at < now))
                      => /\ Answers(p, 403)
                         /\ qrs' = qrs /\ scans' = scans
                   /\ (qrs[i].is_active /\ qrs[i].expires_at = NoTime)
                      => pc'[p] = "scan_commit"]_vars

\* C4 witness: an active QR code whose expiry has passed was refused, no
\* row recorded.
C4_Witness ==
    \E p \in Procs :
       /\ pc[p] = "done" /\ loc[p].op = "scan" /\ loc[p].status = 403
       /\ \E i \in DOMAIN qrs :
             /\ qrs[i].short_code = loc[p].code /\ qrs[i].is_active
             /\ qrs[i].expires_at # NoTime /\ qrs[i].expires_at < now
             /\ qrs[i].total_scans = 0
       /\ scans = EmptyTable

\* C5: a scan whose short code no QR code carries is answered 404 and
\* changes no row of any table and no file.
C5_UnknownCodeIs404 ==
    [][\A p \in Procs :
          (Starts(p, "scan") /\ \A i \in DOMAIN qrs : qrs[i].short_code # loc'[p].code)
             => /\ Answers(p, 404)
                /\ users' = users /\ qrs' = qrs /\ scans' = scans
                /\ files' = files]_vars

\* C5 witness: a 404 was answered while a QR code with another code exists.
C5_Witness ==
    \E p \in Procs :
       /\ pc[p] = "done" /\ loc[p].op = "scan" /\ loc[p].status = 404
       /\ DOMAIN qrs # {}
       /\ \A i \in DOMAIN qrs : qrs[i].short_code # loc[p].code

\* C6: a scan whose commit raises ends in a 500, never in the redirect, and
\* persists nothing: no scan row, no counter or timestamp change; the
\* request is over (it is not tried again).
C6_FailedCommitPersistsNothing ==
    [][\A p \in Procs :
          /\ (pc[p] = "scan_commit" /\ pc'[p] # "scan_commit") =>
                \/ pc'[p] = "scan_redirect" /\ scans' # scans
                \/ /\ Answers(p, 500)
                   /\ users' = users /\ qrs' = qrs /\ scans' = scans
                   /\ files' = files
          /\ (pc[p] = "done" /\ pc'[p] # "done") => pc'[p] = "idle"
          /\ Answers(p, 302) => pc[p] = "scan_redirect"]_vars

\* C6 witness: the commit of a scan of an existing, scannable QR code
\* raised; the worker holds a 500 and the tables show no trace of the scan.
C6_Witness ==
    \E p \in Procs :
       /\ pc[p] = "done" /\ loc[p].op = "scan" /\ loc[p].status = 500
       /\ ~loc[p].committed
       /\ \E i \in DOMAIN qrs :
             /\ qrs[i].short_code = loc[p].code /\ can_scan(qrs[i], now)
             /\ qrs[i].total_scans = 0 /\ qrs[i].last_scanned_at = NoTime
       /\ scans = EmptyTable

\* C7: GET /analytics/{qr_id} answers 404 whenever the caller does not own
\* the QR code (also when it does not exist, whatever the caller's plan),
\* 403 when the caller owns it on the free plan (whatever the scan history),
\* and computes a summary only for an owner on pro or business; a 200 is
\* answered only at the end of such a computation, and nothing is written.
C7_AnalyticsOwnerThenPlan ==
    [][\A p \in Procs :
          /\ Starts(p, "analytics") =>
                LET u    == loc'[p].user
                    i    == loc'[p].id
                    owns == i \in DOMAIN qrs /\ qrs[i].user_id = u
                    plan == users[u].subscription_plan
                IN  /\ ~owns => Answers(p, 404)
                    /\ (owns /\ plan = "free") => Answers(p, 403)
                    /\ (owns /\ plan \in {"pro", "business"}) => pc'[p] = "an_total"
                    /\ users' = users /\ qrs' = qrs /\ scans' = scans
          /\ (Answers(p, 200) /\ loc'[p].op = "analytics") => pc[p] = "an_recent"]_vars

\* C7 witness: a caller on the free plan asked for a QR code that is not
\* theirs and was answered 404, not 403.
C7_Witness ==
    \E p \in Procs :
       /\ pc[p] = "done" /\ loc[p].op = "analytics" /\ loc[p].status = 404
       /\ users[loc[p].user].subscription_plan = "free"
       /\ ~OwnedQr(loc[p].id, loc[p].user)
       /\ QrsOfUser(loc[p].user) # {}

\* C8: every analytics response has
\* scans_today <= scans_this_week <= scans_this_month <= total_scans.
C8_WindowsNested ==
    \A p \in Procs :
       (pc[p] = "done" /\ loc[p].op = "analytics" /\ loc[p].status = 200) =>
          /\ loc[p].scans_today <= loc[p].scans_this_week
          /\ loc[p].scans_this_week <= loc[p].scans_this_month
          /\ loc[p].scans_this_month <= loc[p].total_scans

\* C9: a create request of a free-plan user who owns 3 (or more) QR codes
\* is answered 403 in its first step, before a short code is generated or
\* an artifact written: no row and no file is added; a user on pro or
\* business always passes the quota check.
C9_QuotaRefusesFourth ==
    [][\A p \in Procs :
          /\ Starts(p, "create") =>
                LET u    == loc'[p].user
                    n    == Cardinality({i \in DOMAIN qrs : qrs[i].user_id = u})
                    plan == users[u].subscription_plan
                IN  /\ (plan = "free" /\ n >= 3) => Answers(p, 403)
                    /\ plan \in {"pro", "business"} => pc'[p] = "create_gen"
                    /\ qrs' = qrs /\ files' = files
          /\ (Answers(p, 403) /\ loc'[p].op = "create") =>
                pc[p] = "idle" /\ qrs' = qrs /\ files' = files]_vars

\* C9 witness: a free-plan user who owns exactly 3 QR codes was refused.
C9_Witness ==
    \E p \in Procs :
       /\ pc[p] = "done" /\ loc[p].op = "create" /\ loc[p].status = 403
       /\ users[loc[p].user].subscription_plan = "free"
       /\ Cardinality(QrsOfUser(loc[p].user)) = 3
       /\ Cardinality(files) = 3 * Len(ArtifactOrder)

\* C10: a user on the free plan never owns more than 3 QR codes, however
\* the create requests interleave.
C10_FreeUserOwnsAtMostThree ==
    \A u \in DOMAIN users :
       users[u].subscription_plan = "free" => Cardinality(QrsOfUser(u)) <= 3

\* C11: no two QR codes carry the same short code, and no step changes the
\* short code of a QR code that exists before and after it (an update with
\* any body, a scan, a create or delete of another QR code).
C11_ShortCodeUniqueAndStable ==
    /\ [](\A i, j \in DOMAIN qrs :
             qrs[i].short_code = qrs[j].short_code => i = j)
    /\ [][\A i \in DOMAIN qrs \cap DOMAIN qrs' :
             qrs'[i].short_code = qrs[i].short_code]_vars

\* C11 witness: a create request that drew the short code of a row
\* committed in the meantime was refused by the UNIQUE constraint.
C11_Witness ==
    \E p \in Procs :
       /\ pc[p] = "done" /\ loc[p].op = "create" /\ loc[p].status = 500
       /\ loc[p].error = "IntegrityError"
       /\ qrs # EmptyTable

\* C12: a create request that reached its commit always ends with 201 and
\* a new row whose short code no other row carries; a short code taken in
\* the meantime is never answered with an error.
C12_DuplicateNeverSurfaced ==
    [][\A p \in Procs :
          (pc[p] = "create_commit" /\ pc'[p] = "done") =>
             /\ loc'[p].status = 201
             /\ loc'[p].id \in DOMAIN qrs' \ DOMAIN qrs
             /\ \A j \in DOMAIN qrs :
                   qrs[j].short_code # qrs'[loc'[p].id].short_code]_vars

\* C13: every non-null artifact path stored on a QR row names a
\* completely written file.
C13_ArtifactPathsExist ==
    \A i \in DOMAIN qrs :
       /\ qrs[i].file_path_png # NoId => <<qrs[i].file_path_png, "png">> \in files
       /\ qrs[i].file_path_svg # NoId => <<qrs[i].file_path_svg, "svg">> \in files
       /\ qrs[i].file_path_pdf # NoId => <<qrs[i].file_path_pdf, "pdf">> \in files

\* C14: a get, update, delete or download request that names a QR code of
\* another user is answered 404 and changes no QR row and no scan row; the
\* list request answers exactly the QR codes whose owner is the caller.
C14_OnlyOwnQrCodes ==
    [][\A p \in Procs :
          /\ \A op \in {"get", "update", "delete", "download"} :
                (/\ Starts(p, op)
                 /\ loc'[p].id \in DOMAIN qrs
                 /\ qrs[loc'[p].id].user_id # loc'[p].user)
                => (Answers(p, 404) /\ qrs' = qrs /\ scans' = scans)
          /\ Starts(p, "list") =>
                /\ Answers(p, 200)
                /\ loc'[p].ids = {i \in DOMAIN qrs : qrs[i].user_id = loc'[p].user}
                /\ qrs' = qrs /\ scans' = scans]_vars

\* C14 witness: a delete request for another user's QR code, which has
\* been scanned, was answered 404 and the QR code and its scan are there.
C14_Witness ==
    \E p \in Procs :
       /\ pc[p] = "done" /\ loc[p].op = "delete" /\ loc[p].status = 404
       /\ loc[p].id \in DOMAIN qrs
       /\ qrs[loc[p].id].user_id # loc[p].user
       /\ ScansOf(loc[p].id) # {}

\* C15: every qr_scans row references an existing QR code and every QR
\* code with an owner references an existing user.
C15_NoDanglingReferences ==
    /\ \A s \in DOMAIN scans : scans[s].qr_code_id \in DOMAIN qrs
    /\ \A i \in DOMAIN qrs :
          qrs[i].user_id # NoId => qrs[i].user_id \in DOMAIN users

\* C16: a webhook request whose payload or signature fails verification
\* is answered 400 and changes no user row, whatever event type, user or
\* subscription the payload names.
C16_UnverifiedWebhookRejected ==
    [][\A p \in Procs, ev \in BillingEvents :
          (stripe_webhook(p, ev) /\ ~ev.valid) =>
             (Answers(p, 400) /\ users' = users)]_vars

\* C16 witness: a webhook request was rejected with 400 while the user
\* held a subscription that an accepted event would have touched.
C16_Witness ==
    \E p \in Procs :
       /\ pc[p] = "done" /\ loc[p].op = "webhook" /\ loc[p].status = 400
       /\ users[1].stripe_subscription_id # NoId
       /\ users[1].subscription_plan = "pro"

\* C17: processing a verified checkout.session.completed event that names
\* an existing user leaves that user on pro or business, with the event's
\* subscription id and subscription_ends_at 30 days after the processing
\* time, whatever plan value the metadata carries.
C17_CheckoutActivatesPaidPlan ==
    [][\A p \in Procs, ev \in BillingEvents :
          (/\ stripe_webhook(p, ev)
           /\ ev.valid
           /\ ev.type = "checkout.session.completed"
           /\ ev.user_id \in DOMAIN users)
          => /\ Answers(p, 200)
             /\ users'[ev.user_id].subscription_plan \in {"pro", "business"}
             /\ users'[ev.user_id].stripe_subscription_id = ev.subscription
             /\ users'[ev.user_id].subscription_ends_at = now + 30 * TicksPerDay]_vars

C19_OneAccountPerEmail ==
    /\ [](\A u, v \in DOMAIN users : users[u].email = users[v].email => u = v)
    /\ [][\A p \in Procs, e \in Emails :
            (/\ pc[p] = "idle" /\ pc'[p] # "idle"
             /\ loc'[p].op = "register" /\ loc'[p].email = e
             /\ \E u \in DOMAIN users : users[u].email = e)
            => /\ pc'[p] = "done" /\ loc'[p].status = 400
               /\ users' = users]_vars
    /\ [][\A q \in Procs, e \in Emails :
            (/\ pc[q] = "register_commit" /\ loc[q].email = e
             /\ pc'[q] = "done"
             /\ \E u \in DOMAIN users : users[u].email = e)
            => /\ loc'[q].status # 201
               /\ users' = users]_vars

\* Two requests for the same new email both passed the SELECT; one created
\* the account, the other was refused by the UNIQUE constraint.
C19_Witness ==
    \E p, q \in Procs :
        /\ pc[p] = "done" /\ loc[p].op = "register" /\ loc[p].status = 201
        /\ pc[q] = "done" /\ loc[q].op = "register" /\ loc[q].status = 500
        /\ loc[p].email = loc[q].email
        /\ \E u \in DOMAIN users : users[u].email = loc[p].email

\* C20: for every combination of the parser's is_mobile / is_tablet / is_pc
\* flags a scan that is recorded stores exactly one device type out of
\* mobile, tablet, desktop, other: mobile when is_mobile, else tablet when
\* is_tablet, else desktop when is_pc, else other; the row inserted at the
\* commit carries that value, and no recorded scan has a null device type.
C20_DeviceTypeTotalWithPrecedence ==
    /\ [][\A p \in Procs, c \in Codes, ua \in UserAgents :
            (ScanRead(p, c, ua) /\ pc'[p] = "scan_commit")
            => /\ ua.is_mobile => loc'[p].device_type = "mobile"
               /\ ~ua.is_mobile /\ ua.is_tablet => loc'[p].device_type = "tablet"
               /\ ~ua.is_mobile /\ ~ua.is_tablet /\ ua.is_pc
                     => loc'[p].device_type = "desktop"
               /\ ~ua.is_mobile /\ ~ua.is_tablet /\ ~ua.is_pc
                     => loc'[p].device_type = "other"]_vars
    /\ [][\A p \in Procs :
            (pc[p] = "scan_commit" /\ pc'[p] = "scan_redirect")
            => /\ DOMAIN scans' = DOMAIN scans \cup {NextId(scans)}
               /\ scans'[NextId(scans)].device_type = loc[p].device_type]_vars
    /\ [](\A s \in DOMAIN scans :
            scans[s].device_type \in {"mobile", "tablet", "desktop", "other"})

\* Two scans are recorded: one from a client with no flag set (stored as
\* other) and one from a tablet that is not a mobile (stored as tablet).
C20_Witness ==
    \E s, t \in DOMAIN scans :
        /\ scans[s].device_type = "other"
        /\ scans[t].device_type = "tablet"

\* C21: an analytics request of the owner on a paid plan ends with a
\* summary (200) whose device breakdown has, for every device type, as many
\* scans as rows of that QR code were recorded with that type when the
\* request started reading, each type listed once, and whose counts sum
\* to total_scans.
C21_DeviceBreakdownCountsEveryScan ==
    [][\A p \in Procs :
          (pc[p] = "an_recent" /\ pc'[p] = "done") =>
             LET r == loc'[p] IN
             /\ r.status = 200
             /\ \A a, b \in 1..Len(r.top_devices) :
                   r.top_devices[a].key = r.top_devices[b].key => a = b
             /\ \A d \in {"mobile", "tablet", "desktop", "other"} :
                   LET n == Cardinality({s \in ScansOf(r.id) : scans[s].device_type = d})
                   IN  n > 0 => \E a \in 1..Len(r.top_devices) :
                                   r.top_devices[a].key = d /\ r.top_devices[a].count = n
             /\ SumSeq([a \in 1..Len(r.top_devices) |-> r.top_devices[a].count])
                   = r.total_scans]_vars

\* C22: an analytics request of the owner on a paid plan ends with a
\* summary (200) that lists at most 5 countries and at most 5 device types,
\* each list in non-increasing order of count and without the null group,
\* and at most 10 recent scans, newest first, none older than a scan that
\* is left out.
C22_TopListsAndRecentScans ==
    [][\A p \in Procs :
          (pc[p] = "an_recent" /\ pc'[p] = "done") =>
             LET r == loc'[p] IN
             /\ r.status = 200
             /\ Len(r.top_countries) <= 5 /\ Len(r.top_devices) <= 5
             /\ \A a \in 1..Len(r.top_countries) : r.top_countries[a].key # NoId
             /\ \A a, b \in 1..Len(r.top_countries) :
                   a < b => r.top_countries[a].count >= r.top_countries[b].count
             /\ \A a, b \in 1..Len(r.top_devices) :
                   a < b => r.top_devices[a].count >= r.top_devices[b].count
             /\ Len(r.top_devices) =
                   Cardinality({scans[s].device_type : s \in ScansOf(r.id)})
             /\ Len(r.recent_scans) = Min({10, Cardinality(ScansOf(r.id))})
             /\ \A a, b \in 1..Len(r.recent_scans) :
                   a < b => r.recent_scans[a].timestamp >= r.recent_scans[b].timestamp]_vars

\* C23: the dashboard summary of a user reports total_qr_codes = the number
\* of QR codes the user owns; total_scans = the number of scan rows over
\* exactly those QR codes when they are counted; scans_this_month <=
\* total_scans; and most_scanned_qr is null when none of the QR codes has a
\* scan row, else one of the user's QR codes with a maximal number of scan
\* rows.
C23_DashboardSummary ==
    [][\A p \in Procs :
          /\ (pc[p] = "dash_total" /\ pc'[p] = "dash_month") =>
                loc'[p].total_scans =
                   Cardinality({s \in DOMAIN scans :
                      /\ scans[s].qr_code_id \in DOMAIN qrs
                      /\ qrs[scans[s].qr_code_id].user_id = loc[p].user})
          /\ (pc[p] = "dash_top" /\ pc'[p] = "done") =>
                LET r    == loc'[p]
                    mine == {i \in DOMAIN qrs : qrs[i].user_id = r.user}
                IN  /\ r.status = 200
                    /\ r.total_qr_codes = Cardinality(mine)
                    /\ r.scans_this_month <= r.total_scans
                    /\ IF \A i \in mine : ScansOf(i) = {}
                       THEN r.most_scanned_qr = NoId
                       ELSE /\ r.most_scanned_qr \in mine
                            /\ \A i \in mine : Cardinality(ScansOf(i))
                                  <= Cardinality(ScansOf(r.most_scanned_qr))]_vars

\* C24: a scan that is answered 302 redirects to the destination URL the
\* row holds at that moment; and the owner's update of the destination URL
\* of a dynamic QR code succeeds and stores the new URL under the same
\* short code, so that the scans after it redirect to the new URL.
C24_ScanFollowsUpdatedUrl ==
    [][\A p \in Procs :
          /\ (pc[p] = "scan_redirect" /\ Answers(p, 302)) =>
                loc'[p].url = qrs[loc[p].id].destination_url
          /\ \A u \in DOMAIN users, i \in DOMAIN qrs, upd \in UpdateBodies :
                (/\ UpdateQr(p, u, i, upd)
                 /\ OwnedQr(i, u) /\ qrs[i].is_dynamic
                 /\ "destination_url" \in DOMAIN upd)
                => /\ Answers(p, 200)
                   /\ qrs'[i].destination_url = upd["destination_url"]
                   /\ qrs'[i].short_code = qrs[i].short_code]_vars

\* C25: an update request that carries a destination URL for a static QR
\* code is answered 403 and changes no field of any QR code; no update
\* request changes the destination URL of a static QR code, nor
\* is_dynamic, total_scans, last_scanned_at or the owner of any QR code.
C25_StaticUrlImmutable ==
    [][\A p \in Procs, u \in DOMAIN users, i \in DOMAIN qrs, upd \in UpdateBodies :
          UpdateQr(p, u, i, upd) =>
             /\ (OwnedQr(i, u) /\ ~qrs[i].is_dynamic /\ "destination_url" \in DOMAIN upd)
                   => (Answers(p, 403) /\ qrs' = qrs)
             /\ DOMAIN qrs' = DOMAIN qrs
             /\ \A j \in DOMAIN qrs :
                   /\ qrs'[j].is_dynamic = qrs[j].is_dynamic
                   /\ qrs'[j].total_scans = qrs[j].total_scans
                   /\ qrs'[j].last_scanned_at = qrs[j].last_scanned_at
                   /\ qrs'[j].user_id = qrs[j].user_id
                   /\ ~qrs[j].is_dynamic => qrs'[j].destination_url = qrs[j].destination_url]_vars

\* C25 witness: a request that carried a destination URL together with
\* is_active for the static QR code was refused, after another update had
\* deactivated that QR code and a scan of the dynamic one was recorded.
C25_Witness ==
    \E p \in Procs :
       /\ pc[p] = "done" /\ loc[p].op = "update" /\ loc[p].status = 403
       /\ loc[p].fields = {"destination_url", "is_active"}
       /\ ~qrs[loc[p].id].is_dynamic
       /\ ~qrs[loc[p].id].is_active
       /\ scans # EmptyTable

\* C26: while a user holds a subscription (a checkout.session.completed
\* event for the user was processed and no customer.subscription.deleted
\* event since), analytics requests for the user's QR codes are not
\* refused and create requests pass the quota check; while the user holds
\* none, analytics requests are answered 403 and a create request is
\* answered 403 when the user owns 3 or more QR codes; and a billing event
\* changes no QR code and no scan row.
C26_GatingFollowsBillingEvents ==
    [][\A p \in Procs :
          /\ Starts(p, "analytics") =>
                LET u == loc'[p].user IN
                OwnedQr(loc'[p].id, u) =>
                   IF users[u].stripe_subscription_id # NoId
                   THEN pc'[p] = "an_total"
                   ELSE Answers(p, 403)
          /\ Starts(p, "create") =>
                LET u == loc'[p].user IN
                IF users[u].stripe_subscription_id # NoId
                THEN pc'[p] = "create_gen"
                ELSE Cardinality(QrsOfUser(u)) >= 3 => Answers(p, 403)
          /\ Starts(p, "webhook") => (qrs' = qrs /\ scans' = scans)]_vars

\* C27: a checkout request of a user whose row has no Stripe customer id
\* leaves the id of the customer it created on the row; a checkout request
\* made while another answered checkout of the same user is at hand creates
\* no further customer, and a portal request made then is not answered 400.
C27_CheckoutStoresCustomerId ==
    [][\A p \in Procs :
          /\ (Starts(p, "checkout") /\ Answers(p, 200)) =>
                users'[loc'[p].user].stripe_customer_id # NoId
          /\ \A q \in Procs \ {p} :
                (/\ pc[q] = "done" /\ loc[q].op = "checkout" /\ loc[q].status = 200
                 /\ pc[p] = "idle" /\ pc'[p] = "done" /\ loc'[p].user = loc[q].user)
                => /\ loc'[p].op = "checkout" /\ loc'[p].status = 200
                         => ~loc'[p].customer_created
                   /\ loc'[p].op = "portal" => loc'[p].status # 400]_vars

\* C28: no two init-admin calls succeed; an init-admin call with a wrong
\* secret is answered 403, one with the right secret made while an admin
\* exists is answered 400, and an init-admin call that does not succeed
\* changes no user row.
C28_InitAdminOnlyOnce ==
    /\ [](\A p, q \in Procs :
            (/\ pc[p] = "done" /\ loc[p].op = "init_admin" /\ loc[p].status = 200
             /\ pc[q] = "done" /\ loc[q].op = "init_admin" /\ loc[q].status = 200)
            => p = q)
    /\ [][\A p \in Procs, e \in Emails, key_ok \in BOOLEAN :
            InitAdminCheck(p, e, key_ok) =>
               /\ ~key_ok => Answers(p, 403)
               /\ (key_ok /\ Admins # {}) => Answers(p, 400)]_vars
    /\ [][\A p \in Procs :
            (pc'[p] = "done" /\ pc[p] # "done" /\ loc'[p].op = "init_admin"
             /\ loc'[p].status # 200) => users' = users]_vars

\* C29: every admin endpoint called by a user whose role is not admin is
\* answered 403 and changes no user, QR code or scan row; a delete-user
\* request of an admin that targets another admin is answered 403 and
\* deletes nothing.
C29_AdminOnly ==
    [][\A p \in Procs :
          /\ \A op \in {"admin_stats", "admin_users", "admin_update", "admin_delete"} :
                (Starts(p, op) /\ users[loc'[p].user].role # "admin")
                => /\ Answers(p, 403)
                   /\ users' = users /\ qrs' = qrs /\ scans' = scans
          /\ \A a \in DOMAIN users, u \in DOMAIN users :
                (delete_user(p, a, u) /\ users[u].role = "admin" /\ u # a)
                => /\ Answers(p, 403)
                   /\ users' = users /\ qrs' = qrs /\ scans' = scans]_vars

\* C29 witness: an admin's delete request was refused (it targeted the
\* other admin) while both admins, the user's QR code and its scan row are
\* still there.
C29_Witness ==
    \E p \in Procs :
       /\ pc[p] = "done" /\ loc[p].op = "admin_delete" /\ loc[p].status = 403
       /\ loc[p].user \in DOMAIN users /\ users[loc[p].user].role = "admin"
       /\ Cardinality(Admins) >= 2
       /\ qrs # EmptyTable /\ scans # EmptyTable

\* C30: for every QR code last_scanned_at is null exactly when total_scans
\* is 0; a QR code that appears in the table has total_scans 0 and no scan
\* row; while a QR code exists its total_scans never decreases and its
\* last_scanned_at never moves backwards.
C30_ScanSummaryMonotone ==
    /\ [](\A i \in DOMAIN qrs :
            (qrs[i].last_scanned_at = NoTime) <=> (qrs[i].total_scans = 0))
    /\ [][\A i \in DOMAIN qrs' \ DOMAIN qrs :
            /\ qrs'[i].total_scans = 0
            /\ \A s \in DOMAIN scans' : scans'[s].qr_code_id # i]_vars
    /\ [][\A i \in DOMAIN qrs \cap DOMAIN qrs' :
            /\ qrs'[i].total_scans >= qrs[i].total_scans
            /\ qrs'[i].last_scanned_at >= qrs[i].last_scanned_at]_vars

====
